---- MODULE Spec2Model ----
(***************************************************************************)
(* Model of the premier-league-api server bootstrap (src/server.js) and    *)
(* of its helper layer: the redis cache helpers, the JWT helpers and the    *)
(* request-user accessors.  Time is counted in whole seconds.               *)
(***************************************************************************)
EXTENDS Integers, Sequences, FiniteSets, TLC

VARIABLES
  now,        \* wall clock, in seconds
  ticks,      \* number of clock advances so far
  redis,      \* the redis keyspace: key -> entry
  hist,       \* per key, the last storeToRedis/removeFromRedis call made on it
              \* (prev: expiry of the live entry a store replaced, if any)
  pending,    \* redisClient.get commands sent and not yet answered
  fetched,    \* outcome of the reply handler of getFromRedis that ran last
  token,      \* the JWT at hand: the one generateToken returned last, possibly altered since
  issued,     \* the generateToken call that produced it
  verified,   \* outcome of the verifyToken call made last
  NODE_ENV,   \* process.env.NODE_ENV
  reqs,       \* the request objects: req.user and req.session.user
  wrote,      \* per request, the user setRequestUser was last given
  lastRead,   \* outcome of the getRequestUser call made last
  dbState,    \* the promise dbconnect() returned
  hasParent,  \* module.parent is set: the module was imported
  thenQueued, \* the .then callback is queued to run
  listening,  \* app.listen has been called
  req,        \* the HTTP request being handled
  stage,      \* the middleware it has reached
  resp        \* the responses sent for it

clockVars == <<now, ticks>>
cacheVars == <<redis, hist, pending, fetched>>
tokenVars == <<token, issued, verified>>
sessVars == <<NODE_ENV, reqs, wrote, lastRead>>
bootVars == <<dbState, hasParent, thenQueued, listening>>
httpVars == <<req, stage, resp>>
vars == <<now, ticks, redis, hist, pending, fetched, token, issued, verified,
          NODE_ENV, reqs, wrote, lastRead,
          dbState, hasParent, thenQueued, listening, req, stage, resp>>

(***************************************************************************)
(* Bounds                                                                  *)
(***************************************************************************)
MaxTicks == 2
MaxPending == 1

(***************************************************************************)
(* JavaScript values and JSON.stringify                                    *)
(***************************************************************************)
NullV == [t |-> "null"]
Num(n) == [t |-> "number", n |-> n]
Str(s) == [t |-> "string", s |-> s]
Obj(x) == [t |-> "object", name |-> x]

\* the values callers hand to storeToRedis (JSON-serializable payloads)
Values == {Num(1), Obj(Str(<<"A", "m", "a">>))}

RECURSIVE JSONstringify(_)
JSONstringify(v) ==
  CASE v.t = "null" -> <<"n", "u", "l", "l">>
    [] v.t = "number" -> <<ToString(v.n)>>
    [] v.t = "string" -> <<"\"">> \o v.s \o <<"\"">>
    [] v.t = "object" ->
         <<"{", "\"", "n", "a", "m", "e", "\"", ":">> \o JSONstringify(v.name) \o <<"}">>

(***************************************************************************)
(* The redis server behind redisClient                                     *)
(***************************************************************************)
Keys == {"user:42", "team:7"}

NoEntry == [present |-> FALSE]
Entry(text, exp) == [present |-> TRUE, val |-> text, expireAt |-> exp]

setex_keepttl(store, key, seconds, text, t) ==
  [store EXCEPT ![key] =
     Entry(text, IF store[key].present THEN store[key].expireAt ELSE t + seconds)]

\* SETEX key seconds value
setex(store, key, seconds, text, t) == [store EXCEPT ![key] = Entry(text, t + seconds)]

del_keep(store, key) == store

\* DEL key
del(store, key) == [store EXCEPT ![key] = NoEntry]

\* GET key: the stored string, or null once the key is gone or has expired
get(store, key, t) ==
  IF store[key].present /\ t < store[key].expireAt THEN Str(store[key].val) ELSE NullV

(***************************************************************************)
(* jsonwebtoken as used by generateToken and verifyToken                   *)
(***************************************************************************)
\* process.env.SECRET_KEY, and a key the process does not hold
SECRET_KEY == "process-secret"
OtherKey == "other-secret"

\* payloads: objects over the fields id, iat and exp
PayloadValues == [id |-> {1, 2}, iat |-> {1}, exp |-> {5}]

Payloads ==
  UNION {{f \in [S -> 1..5] : \A x \in S : f[x] \in PayloadValues[x]} :
           S \in SUBSET {"id", "iat", "exp"}}

\* a time span as the ms package reads it: '30days', '1ms', or a number of seconds
ThirtyDays == [n |-> 30, unit |-> "days"]
ExpiresInArgs == {<<>>, <<[n |-> 1, unit |-> "ms"]>>, <<[n |-> 2, unit |-> "seconds"]>>}

\* ms(str) of the ms package, kept as whole seconds plus a rest in
\* milliseconds (the product in milliseconds exceeds the checker's integers)
ms(span) ==
  CASE span.unit = "ms" -> [s |-> span.n \div 1000, ms |-> span.n % 1000]
    [] span.unit = "days" -> [s |-> span.n * 24 * 60 * 60, ms |-> 0]

\* timespan(time, iat) of jsonwebtoken: seconds for a number, floor(iat + ms/1000) for a string
timespan(span, iat) ==
  IF span.unit = "seconds" THEN iat + span.n ELSE iat + ms(span).s

\* expiresIn = '30days'
ExpiresIn(opt) == IF Len(opt) = 0 THEN ThirtyDays ELSE opt[1]

Put(f, x, v) == [y \in DOMAIN f \cup {x} |-> IF y = x THEN v ELSE f[y]]

\* the signature over the claims under a key
hmac(claims, key) == [over |-> claims, key |-> key]

sign_nostamp(payload, key, span, t) ==
  IF "exp" \in DOMAIN payload
    THEN [ok |-> FALSE]
    ELSE [ok |-> TRUE, parts |-> 3, claims |-> payload, sig |-> hmac(payload, key)]

\* jwt.sign(payload, key, {expiresIn}): stamps iat and exp into a copy of the payload
sign(payload, key, span, t) ==
  IF "exp" \in DOMAIN payload
    THEN [ok |-> FALSE]
    ELSE LET timestamp == IF "iat" \in DOMAIN payload THEN payload["iat"] ELSE t
             claims == Put(Put(payload, "iat", timestamp), "exp", timespan(span, timestamp))
         IN  [ok |-> TRUE, parts |-> 3, claims |-> claims, sig |-> hmac(claims, key)]

verify_lateexp(tok, key, t) ==
  IF tok.parts # 3
    THEN [done |-> TRUE, thrown |-> TRUE, kind |-> "JsonWebTokenError"]
  ELSE IF tok.sig # hmac(tok.claims, key)
    THEN [done |-> TRUE, thrown |-> TRUE, kind |-> "JsonWebTokenError"]
  ELSE IF "exp" \in DOMAIN tok.claims /\ t > tok.claims["exp"]
    THEN [done |-> TRUE, thrown |-> TRUE, kind |-> "TokenExpiredError"]
  ELSE [done |-> TRUE, thrown |-> FALSE, kind |-> "none", ret |-> tok.claims]

\* jwt.verify(token, key) without a callback: returns the decoded claims or throws
verify(tok, key, t) ==
  IF tok.parts # 3
    THEN [done |-> TRUE, thrown |-> TRUE, kind |-> "JsonWebTokenError"]
  ELSE IF tok.sig # hmac(tok.claims, key)
    THEN [done |-> TRUE, thrown |-> TRUE, kind |-> "JsonWebTokenError"]
  ELSE IF "exp" \in DOMAIN tok.claims /\ t >= tok.claims["exp"]
    THEN [done |-> TRUE, thrown |-> TRUE, kind |-> "TokenExpiredError"]
  ELSE [done |-> TRUE, thrown |-> FALSE, kind |-> "none", ret |-> tok.claims]

NoToken == [ok |-> FALSE]
NoVerify == [done |-> FALSE]

TokenStart ==
  /\ token = NoToken
  /\ issued = [done |-> FALSE]
  /\ verified = NoVerify

generateToken(payload, opt) ==
  /\ token' = sign(payload, SECRET_KEY, ExpiresIn(opt), now)
  /\ issued' = [done |-> TRUE, payload |-> payload, opt |-> opt, at |-> now, altered |-> FALSE]
  /\ verified' = NoVerify
  /\ UNCHANGED <<clockVars, cacheVars, sessVars, bootVars, httpVars>>

verifyToken ==
  /\ token.ok
  /\ verified' = verify(token, SECRET_KEY, now)
  /\ UNCHANGED <<clockVars, cacheVars, token, issued, sessVars, bootVars, httpVars>>

\* what a holder of the token, who does not hold SECRET_KEY, can turn it into
Alterations(tok) ==
  {[tok EXCEPT !.claims = Put(tok.claims, "exp", tok.claims["exp"] + ms(ThirtyDays).s)],
   [tok EXCEPT !.claims = Put(tok.claims, "id", 3)],
   [tok EXCEPT !.sig = hmac(tok.claims, OtherKey)],
   [tok EXCEPT !.parts = 2]}

AlterToken ==
  /\ token.ok /\ ~issued.altered
  /\ \E tok \in Alterations(token) : token' = tok
  /\ issued' = [issued EXCEPT !.altered = TRUE]
  /\ verified' = NoVerify
  /\ UNCHANGED <<clockVars, cacheVars, sessVars, bootVars, httpVars>>

TokenTickSteps == {1, ms(ThirtyDays).s}

TokenTick ==
  /\ ticks < MaxTicks
  /\ ticks' = ticks + 1
  /\ \E d \in TokenTickSteps : now' = now + d
  /\ verified' = NoVerify
  /\ UNCHANGED <<cacheVars, token, issued, sessVars, bootVars, httpVars>>


(***************************************************************************)
(* Request-user accessors                                                  *)
(***************************************************************************)
Undefined == [t |-> "undefined"]
Users == {[id |-> 1], [id |-> 2]}
Environments == {"test", "development", "production"}
ReqIds == {1, 2}

getRequestUser(r) ==
  IF NODE_ENV = "test" THEN r.user ELSE r.session.user

setRequestUser_both(r, userObject) ==
  [user |-> userObject, session |-> [user |-> userObject]]

\* the request object after the assignment
setRequestUser(r, userObject) ==
  IF NODE_ENV = "test"
    THEN [r EXCEPT !.user = userObject]
    ELSE [r EXCEPT !.session.user = userObject]

NoRead == [done |-> FALSE]

SetRequestUser(id, userObject) ==
  /\ reqs' = [reqs EXCEPT ![id] = setRequestUser(reqs[id], userObject)]
  /\ wrote' = [wrote EXCEPT ![id] = <<userObject>>]
  /\ lastRead' = NoRead
  /\ UNCHANGED <<NODE_ENV, clockVars, cacheVars, tokenVars, bootVars, httpVars>>

GetRequestUser(id) ==
  /\ lastRead' = [done |-> TRUE, id |-> id, ret |-> getRequestUser(reqs[id])]
  /\ UNCHANGED <<NODE_ENV, reqs, wrote, clockVars, cacheVars, tokenVars, bootVars, httpVars>>

\* requests as they reach the accessors: nothing attached yet in the store of
\* the current mode, anything in the other one
SessionStart ==
  /\ NODE_ENV \in Environments
  /\ reqs \in [ReqIds -> [user : Users \cup {Undefined},
                          session : [user : Users \cup {Undefined}]]]
  /\ \A id \in ReqIds :
       IF NODE_ENV = "test" THEN reqs[id].user = Undefined
                            ELSE reqs[id].session.user = Undefined
  /\ wrote = [id \in ReqIds |-> <<>>]
  /\ lastRead = NoRead

SessionIdle ==
  /\ NODE_ENV = "development"
  /\ reqs = [id \in ReqIds |-> [user |-> Undefined, session |-> [user |-> Undefined]]]
  /\ wrote = [id \in ReqIds |-> <<>>]
  /\ lastRead = NoRead

(***************************************************************************)
(* Server bootstrap and the middleware chain of app                        *)
(***************************************************************************)
Methods == {"GET", "POST", "DELETE", "OPTIONS"}
Paths == {<<>>, <<"teams">>, <<"api", "v1", "teams">>,
          <<"api", "v1", "auth", "login">>, <<"api", "v1", "nope">>}
Bodies == {"none", "json", "badjson"}

NoRequest == [method |-> "GET", path |-> <<>>, body |-> "none"]

Respond(r) == resp' = Append(resp, r)

\* the promise returned by dbconnect() settles, one way or the other
DbResolve ==
  /\ dbState = "pending"
  /\ dbState' = "resolved"
  /\ thenQueued' = TRUE
  /\ UNCHANGED <<hasParent, listening, httpVars, clockVars, cacheVars, tokenVars, sessVars>>

DbReject ==
  /\ dbState = "pending"
  /\ dbState' = "rejected"
  /\ UNCHANGED <<hasParent, thenQueued, listening, httpVars, clockVars, cacheVars, tokenVars, sessVars>>

ThenCallback_always ==
  /\ thenQueued
  /\ thenQueued' = FALSE
  /\ listening' = TRUE
  /\ UNCHANGED <<dbState, hasParent, httpVars, clockVars, cacheVars, tokenVars, sessVars>>

\* async () => { if (!module.parent) app.listen(port, ...) }
ThenCallback ==
  /\ thenQueued
  /\ thenQueued' = FALSE
  /\ listening' = IF ~hasParent THEN TRUE ELSE listening
  /\ UNCHANGED <<dbState, hasParent, httpVars, clockVars, cacheVars, tokenVars, sessVars>>

\* a request reaches app: through the listening socket, or handed to the
\* exported app by the module that imported it
Arrive(m, p, b) ==
  /\ listening \/ hasParent
  /\ stage \in {"idle", "done"}
  /\ req' = [method |-> m, path |-> p, body |-> b]
  /\ stage' = "cors"
  /\ resp' = <<>>
  /\ UNCHANGED <<bootVars, clockVars, cacheVars, tokenVars, sessVars>>

\* cors(): answers a preflight itself, passes everything else on
Cors ==
  /\ stage = "cors"
  /\ IF req.method = "OPTIONS"
       THEN Respond([status |-> 204, body |-> [empty |-> TRUE]]) /\ stage' = "done"
       ELSE stage' = "urlencoded" /\ UNCHANGED resp
  /\ UNCHANGED <<req, bootVars, clockVars, cacheVars, tokenVars, sessVars>>

\* express.urlencoded({extended: false})
Urlencoded ==
  /\ stage = "urlencoded"
  /\ stage' = "json"
  /\ UNCHANGED <<req, resp, bootVars, clockVars, cacheVars, tokenVars, sessVars>>

\* express.json(): a body that does not parse goes to the error handler
Json ==
  /\ stage = "json"
  /\ IF req.body = "badjson"
       THEN Respond([status |-> 400, body |-> [html |-> "Bad Request"]]) /\ stage' = "done"
       ELSE stage' = "router" /\ UNCHANGED resp
  /\ UNCHANGED <<req, bootVars, clockVars, cacheVars, tokenVars, sessVars>>

errorResponse(statusCode, message) ==
  [status |-> statusCode, body |-> [status |-> "error", message |-> message, error |-> ""]]

successResponse(statusCode, message) ==
  [status |-> statusCode, body |-> [status |-> "success", message |-> message, data |-> "data"]]

Mount == <<"api", "v1">>

Mounted(p) == Len(p) >= Len(Mount) /\ SubSeq(p, 1, Len(Mount)) = Mount

\* the routes of ./routes
RouterRoutes ==
  {[method |-> "GET", path |-> <<"teams">>], [method |-> "POST", path |-> <<"auth", "login">>]}

RouterHandles(r) ==
  /\ Mounted(r.path)
  /\ [method |-> r.method, path |-> SubSeq(r.path, Len(Mount) + 1, Len(r.path))] \in RouterRoutes

RouterResponses == {successResponse(200, "ok"), errorResponse(401, "unauthorized")}

\* app.use('/api/v1', router)
Router ==
  /\ stage = "router"
  /\ IF RouterHandles(req)
       THEN (\E r \in RouterResponses : Respond(r)) /\ stage' = "done"
       ELSE stage' = "catchall" /\ UNCHANGED resp
  /\ UNCHANGED <<req, bootVars, clockVars, cacheVars, tokenVars, sessVars>>

CatchAll_notfound ==
  /\ stage = "catchall"
  /\ Respond([status |-> 404, body |-> [error |-> "Not found"]])
  /\ stage' = "done"
  /\ UNCHANGED <<req, bootVars, clockVars, cacheVars, tokenVars, sessVars>>

\* app.all('*', (req, res) => res.status(405).json({error: 'Method not allowed'}))
CatchAll ==
  /\ stage = "catchall"
  /\ Respond([status |-> 405, body |-> [error |-> "Method not allowed"]])
  /\ stage' = "done"
  /\ UNCHANGED <<req, bootVars, clockVars, cacheVars, tokenVars, sessVars>>

ServerStart ==
  /\ dbState = "pending"
  /\ hasParent \in BOOLEAN
  /\ thenQueued = FALSE
  /\ listening = FALSE
  /\ req = NoRequest
  /\ stage = "idle"
  /\ resp = <<>>

ServerIdle == ServerStart /\ hasParent = FALSE

(***************************************************************************)
(* Cache helpers                                                           *)
(***************************************************************************)
DefaultTimeout == 3600

\* an optional argument is a sequence of length 0 (omitted) or 1
TimeoutArgs == {<<>>, <<1>>}

Timeout_twohours(opt) == IF Len(opt) = 0 THEN 2 * DefaultTimeout ELSE opt[1]

\* timeout = 3600
Timeout(opt) == IF Len(opt) = 0 THEN DefaultTimeout ELSE opt[1]

NoFetch == [done |-> FALSE]

storeToRedis(key, values, opt) ==
  /\ redis' = setex(redis, key, Timeout(opt), JSONstringify(values), now)
  /\ hist' = [hist EXCEPT ![key] =
                [op |-> "store", val |-> values, ttl |-> opt, at |-> now,
                 prev |-> IF get(redis, key, now) # NullV
                            THEN <<redis[key].expireAt>> ELSE <<>>]]
  /\ fetched' = NoFetch
  /\ UNCHANGED <<now, ticks, pending, tokenVars, sessVars, bootVars, httpVars>>

removeFromRedis(key) ==
  /\ redis' = del(redis, key)
  /\ hist' = [hist EXCEPT ![key] = [op |-> "del"]]
  /\ fetched' = NoFetch
  /\ UNCHANGED <<now, ticks, pending, tokenVars, sessVars, bootVars, httpVars>>

\* getFromRedis hands the command to redisClient.get, which queues it and
\* returns; getFromRedis has returned to its caller before any reply arrives
getFromRedis(key) ==
  /\ Len(pending) < MaxPending
  /\ pending' = Append(pending, [key |-> key, returned |-> TRUE])
  /\ UNCHANGED <<now, ticks, redis, hist, fetched, tokenVars, sessVars, bootVars, httpVars>>

\* the reply handler: (error, result) => { if (error) throw ...; return callback(result) }
\* It is run by the client when the reply arrives; an exception it throws
\* unwinds into the frame that is running it.
ReplyHandler(cmd, error) ==
  IF error
    THEN [done |-> TRUE, key |-> cmd.key, error |-> TRUE, thrown |-> TRUE,
          raisedIn |-> IF cmd.returned THEN "eventloop" ELSE "caller",
          calls |-> 0, arg |-> NullV]
    ELSE [done |-> TRUE, key |-> cmd.key, error |-> FALSE, thrown |-> FALSE,
          raisedIn |-> "none", calls |-> 1, arg |-> get(redis, cmd.key, now)]

RedisReply ==
  /\ Len(pending) > 0
  /\ \E error \in BOOLEAN : fetched' = ReplyHandler(Head(pending), error)
  /\ pending' = Tail(pending)
  /\ UNCHANGED <<now, ticks, redis, hist, tokenVars, sessVars, bootVars, httpVars>>

TickSteps == {1, DefaultTimeout}

Tick ==
  /\ ticks < MaxTicks
  /\ ticks' = ticks + 1
  /\ \E d \in TickSteps : now' = now + d
  /\ fetched' = NoFetch
  /\ UNCHANGED <<redis, hist, pending, tokenVars, sessVars, bootVars, httpVars>>

ClockStart == now = 0 /\ ticks = 0

CacheStart ==
  /\ redis = [k \in Keys |-> NoEntry]
  /\ hist = [k \in Keys |-> [op |-> "none"]]
  /\ pending = <<>>
  /\ fetched = NoFetch

InitCache == ClockStart /\ CacheStart /\ TokenStart /\ SessionIdle /\ ServerIdle

StoreStep == \E k \in Keys, v \in Values, opt \in TimeoutArgs : storeToRedis(k, v, opt)
RemoveStep == \E k \in Keys : removeFromRedis(k)
GetStep == \E k \in Keys : getFromRedis(k)

NextCache == StoreStep \/ RemoveStep \/ GetStep \/ RedisReply \/ Tick

SpecCache == InitCache /\ [][NextCache]_vars

InitToken == ClockStart /\ CacheStart /\ TokenStart /\ SessionIdle /\ ServerIdle

GenerateStep == \E payload \in Payloads, opt \in ExpiresInArgs : generateToken(payload, opt)

NextToken == GenerateStep \/ verifyToken \/ AlterToken \/ TokenTick

SpecToken == InitToken /\ [][NextToken]_vars

InitSession == ClockStart /\ CacheStart /\ TokenStart /\ SessionStart /\ ServerIdle

SetStep == \E id \in ReqIds, u \in Users : SetRequestUser(id, u)
ReadStep == \E id \in ReqIds : GetRequestUser(id)

NextSession == SetStep \/ ReadStep

SpecSession == InitSession /\ [][NextSession]_vars

InitServer == ClockStart /\ CacheStart /\ TokenStart /\ SessionIdle /\ ServerStart

ArriveStep == \E m \in Methods, p \in Paths, b \in Bodies : Arrive(m, p, b)

NextServer ==
  \/ DbResolve \/ DbReject \/ ThenCallback
  \/ ArriveStep \/ Cors \/ Urlencoded \/ Json \/ Router \/ CatchAll

SpecServer == InitServer /\ [][NextServer]_vars

(***************************************************************************)
(* Properties of the cache helpers                                         *)
(***************************************************************************)
\* the time-to-live a store call asks for: its argument, 3600 when omitted
AskedTtl(opt) == IF Len(opt) = 0 THEN 3600 ELSE opt[1]

\* a fetch of key k has just been answered by the store without an error
Served(k) == fetched.done /\ fetched.key = k /\ ~fetched.error

Fresh(k) == hist[k].op = "store" /\ now < hist[k].at + AskedTtl(hist[k].ttl)
Stale(k) == hist[k].op = "store" /\ now >= hist[k].at + AskedTtl(hist[k].ttl)

\* C1 as stated: a fetch served before the ttl of the last store on K has
\* elapsed hands the callback the stored value V itself, and a fetch served
\* after an evict of K hands it the absent value.
C1_RoundTripValue ==
  \A k \in Keys :
    Served(k) =>
      /\ Fresh(k) => fetched.arg = hist[k].val
      /\ hist[k].op = "del" => fetched.arg = NullV

\* C1 amended: a fetch served before the ttl of the last store on K has
\* elapsed hands the callback the JSON text of V (a string, JSON.stringify(V)),
\* never V itself; a fetch served after an evict of K hands it the absent value.
C1_RoundTripText ==
  \A k \in Keys :
    Served(k) =>
      /\ Fresh(k) =>
           /\ fetched.arg = Str(JSONstringify(hist[k].val))
           /\ fetched.arg # hist[k].val
      /\ hist[k].op = "del" => fetched.arg = NullV

C1_Witness ==
  /\ Served("user:42") /\ hist["user:42"].op = "del" /\ fetched.arg = NullV
  /\ redis["team:7"].present /\ now < redis["team:7"].expireAt

C1_WitnessHit ==
  /\ Served("user:42") /\ Fresh("user:42")
  /\ hist["user:42"].val = Num(1) /\ fetched.arg = Str(<<"1">>)

\* C2: once the ttl of the last store on K (3600 when the argument was
\* omitted) has elapsed, a fetch of K answered by the store invokes the
\* callback once with the absent value and raises no error.
C2_ExpiredIsMiss ==
  \A k \in Keys :
    Served(k) /\ Stale(k) =>
      fetched.arg = NullV /\ fetched.calls = 1 /\ ~fetched.thrown

C2_Witness ==
  /\ Served("user:42") /\ Stale("user:42")
  /\ hist["user:42"].ttl = <<>> /\ now = hist["user:42"].at + 3600
  /\ fetched.arg = NullV

\* C3 as stated: after a store of V2 over a live entry of K, a fetch of K
\* served within the new ttl hands the callback V2.
C3_OverwriteValue ==
  \A k \in Keys :
    Served(k) /\ Fresh(k) /\ hist[k].prev # <<>> => fetched.arg = hist[k].val

C3_EntryOfLastStore ==
  \A k \in Keys :
    hist[k].op = "store" =>
      /\ redis[k] = Entry(JSONstringify(hist[k].val), hist[k].at + AskedTtl(hist[k].ttl))
      /\ Served(k) =>
           fetched.arg = IF Fresh(k) THEN Str(JSONstringify(hist[k].val)) ELSE NullV

C3_OtherKeysKept ==
  \A k \in Keys :
    hist'[k] # hist[k] =>
      \A j \in Keys \ {k} : redis'[j] = redis[j] /\ hist'[j] = hist[j]

\* C3 amended: a store of V2 with ttl2 on K replaces the entry and restarts
\* the expiry: the entry of K is the JSON text of V2 expiring ttl2 seconds
\* after that store, a fetch of K hands the callback that text until then
\* and the absent value afterwards, and entries under other keys are unchanged.
C3_OverwriteResets == []C3_EntryOfLastStore /\ [][C3_OtherKeysKept]_vars

C3_Witness ==
  /\ Served("user:42") /\ hist["user:42"].op = "store"
  /\ hist["user:42"].prev = <<1>> /\ hist["user:42"].ttl = <<>> /\ now = 1
  /\ fetched.arg = Str(JSONstringify(hist["user:42"].val))
  /\ redis["team:7"].present

\* C4 as stated: when the store reports an error the fetch raises an error
\* in its caller and the callback is not invoked; on a clean miss the
\* callback is invoked exactly once with the absent value and nothing is raised.
C4_ErrorReachesCaller ==
  fetched.done =>
    /\ fetched.error =>
         fetched.thrown /\ fetched.raisedIn = "caller" /\ fetched.calls = 0
    /\ (~fetched.error /\ fetched.arg = NullV) =>
         fetched.calls = 1 /\ ~fetched.thrown

(***************************************************************************)
(* Properties of the token helpers                                         *)
(***************************************************************************)
FalseV == [t |-> "boolean", b |-> FALSE]

\* verifyToken has just run on the token exactly as generateToken returned it
VerifiedIssued == verified.done /\ ~issued.altered

\* C5 as stated: verifyToken applied to generateToken's result, right after
\* issuance and under the same secret, returns a payload equal to J.
C5_VerifyReturnsPayload ==
  (VerifiedIssued /\ issued.opt = <<>> /\ now = issued.at) =>
    ~verified.thrown /\ verified.ret = issued.payload

\* C5 amended: for every payload J that carries no iat or exp claim of its
\* own, verifyToken applied to generateToken(J), right after issuance and
\* under the same secret, returns J extended with the claims iat (the time of
\* issuance) and exp (iat + 30 days): it agrees with J on every field of J
\* and is not equal to J.
C5_VerifyReturnsStampedPayload ==
  (VerifiedIssued /\ issued.opt = <<>> /\ now = issued.at
     /\ "iat" \notin DOMAIN issued.payload) =>
    /\ ~verified.thrown
    /\ DOMAIN verified.ret = DOMAIN issued.payload \cup {"iat", "exp"}
    /\ \A x \in DOMAIN issued.payload : verified.ret[x] = issued.payload[x]
    /\ verified.ret["iat"] = issued.at
    /\ verified.ret["exp"] = issued.at + 2592000
    /\ verified.ret # issued.payload

C5_Witness ==
  /\ VerifiedIssued /\ issued.opt = <<>> /\ now = issued.at /\ now = 1
  /\ DOMAIN issued.payload = {"id"}
  /\ ~verified.thrown /\ verified.ret["id"] = issued.payload["id"]

\* C6: verifyToken accepts a token only if its signature verifies against
\* SECRET_KEY and its exp claim lies in the future; an unaltered token whose
\* expiry (30 days after issuance by default) has been reached is rejected
\* with TokenExpiredError, and a token altered after signing or signed with
\* another key is rejected with JsonWebTokenError.
C6_AcceptsOnlyGenuineUnexpired ==
  verified.done =>
    /\ ~verified.thrown =>
         /\ ~issued.altered
         /\ token.sig = hmac(token.claims, SECRET_KEY)
         /\ now < token.claims["exp"]
    /\ issued.altered => verified.thrown /\ verified.kind = "JsonWebTokenError"
    /\ (~issued.altered /\ now >= token.claims["exp"]) =>
         verified.thrown /\ verified.kind = "TokenExpiredError"
    /\ (~issued.altered /\ issued.opt = <<>> /\ "iat" \notin DOMAIN issued.payload) =>
         (verified.thrown <=> now >= issued.at + 2592000)

C6_Witness ==
  /\ VerifiedIssued /\ issued.opt = <<>> /\ "iat" \notin DOMAIN issued.payload
  /\ now = issued.at + 2592000
  /\ verified.thrown /\ verified.kind = "TokenExpiredError"

C6_WitnessForged ==
  /\ verified.done /\ issued.altered /\ token.sig = hmac(token.claims, OtherKey)
  /\ verified.kind = "JsonWebTokenError"

\* C7 as stated: verifyToken returns the decoded token when the token is
\* valid and returns false, raising nothing, when it is invalid or expired.
C7_ReturnsFalseOnFailure ==
  verified.done =>
    /\ ~verified.thrown
    /\ verified.ret = IF ~issued.altered /\ now < token.claims["exp"]
                        THEN token.claims ELSE FalseV

C7_Witness == verified.done /\ verified.thrown /\ issued.altered

(***************************************************************************)
(* Properties of the request-user accessors                                *)
(***************************************************************************)
C8_ReadBack ==
  lastRead.done =>
    lastRead.ret = IF wrote[lastRead.id] = <<>> THEN Undefined ELSE wrote[lastRead.id][1]

C8_OtherStoreKept ==
  \A id \in ReqIds :
    IF NODE_ENV = "test"
      THEN reqs'[id].session = reqs[id].session
      ELSE reqs'[id].user = reqs[id].user

\* C8: in test mode and in standard mode alike, getRequestUser after
\* setRequestUser(req, U) on the same request returns U, getRequestUser
\* returns the absent value when nothing has been written, and a write
\* changes only the store of the current mode (req.user in test mode,
\* req.session.user otherwise), never the other one.
C8_UniformAccessor == []C8_ReadBack /\ [][C8_OtherStoreKept]_vars

C8_Witness ==
  /\ NODE_ENV = "production"
  /\ lastRead.done /\ lastRead.id = 1 /\ lastRead.ret = [id |-> 1]
  /\ reqs[1].user = [id |-> 2] /\ wrote[2] = <<>>

C8_WitnessTest ==
  /\ NODE_ENV = "test"
  /\ lastRead.done /\ lastRead.id = 1 /\ lastRead.ret = [id |-> 1]
  /\ reqs[1].session.user = [id |-> 2]

(***************************************************************************)
(* Properties of the server                                                *)
(***************************************************************************)
NotAllowed == [status |-> 405, body |-> [error |-> "Method not allowed"]]

\* the router has a route for the method and path of the request
Handled == RouterHandles(req)

\* answered by the middleware ahead of the router
AnsweredAhead == req.method = "OPTIONS" \/ req.body = "badjson"

\* C9 as stated: every request the router does not handle receives exactly
\* one response, 405 with body {"error":"Method not allowed"}, and a request
\* the router handles never receives that response.
C9_UnhandledGets405 ==
  stage = "done" =>
    /\ ~Handled => resp = <<NotAllowed>>
    /\ Handled => \A i \in 1..Len(resp) : resp[i] # NotAllowed

\* C9 amended: every request that is neither answered by the middleware
\* ahead of the router (cors answers every OPTIONS request with 204, the JSON
\* body parser rejects a malformed body with 400) nor handled by the router
\* receives exactly one response, 405 with body {"error":"Method not
\* allowed"}; every request receives exactly one response, and a request the
\* router handles never receives that 405 response.
C9_FallThroughGets405 ==
  /\ Len(resp) <= 1
  /\ stage = "done" =>
       /\ Len(resp) = 1
       /\ (~Handled /\ ~AnsweredAhead) => resp = <<NotAllowed>>
       /\ Handled => resp[1] # NotAllowed
       /\ req.method = "OPTIONS" => resp[1].status = 204
       /\ (req.method # "OPTIONS" /\ req.body = "badjson") => resp[1].status = 400

C9_Witness ==
  /\ stage = "done" /\ req.method = "DELETE" /\ req.path = <<"api", "v1", "teams">>
  /\ resp = <<NotAllowed>>

C9_WitnessHandled ==
  /\ stage = "done" /\ Handled /\ ~AnsweredAhead /\ resp[1].status = 200

\* C10: app.listen is called only once the promise of dbconnect() has
\* resolved and only when the module is the entry point: never while the
\* promise is pending, never after it rejected, never when module.parent is set.
C10_ListenOnlyAfterConnect ==
  listening => dbState = "resolved" /\ ~hasParent /\ ~thenQueued

C10_Witness == listening /\ dbState = "resolved" /\ ~hasParent

C10_WitnessImported == hasParent /\ dbState = "resolved" /\ ~thenQueued /\ ~listening

====
